---- MODULE Spec2Model ----
(***************************************************************************)
(* A model of the two scripts of the repository.                           *)
(*                                                                         *)
(*   decode_email.py  (EmailLinkExtractor): reads latest_email.txt, finds  *)
(*       the text/html MIME part, decodes it from quoted-printable, prints *)
(*       it and the href values found in it.                               *)
(*   fix_url.py       (UrlRepairer): repairs one embedded URL literal.     *)
(*                                                                         *)
(* Text is a sequence of characters, a character is its code point.  Two   *)
(* runs of characters that the scripts only ever handle as a whole are     *)
(* written as one symbol each (BoundaryTok, ContentTypeTok); both stand    *)
(* for plain ASCII text with no '=', no quote and no line break in it.     *)
(***************************************************************************)
EXTENDS Integers, Sequences, FiniteSets, TLC

\* ------------------------------------------------------------ characters

NL == 10
CR == 13
DQ == 34
SQ == 39
Hash == 35
Amp == 38
Dash == 45
Semi == 59
Eq == 61
LetterX == 120
LetterY == 121
EAcute == 233

\* the value of `boundary` (47 characters), as one symbol
BoundaryTok == 1114112
\* the text "Content-Type: text/html" (the ";" after it is a character of its
\* own), as one symbol
ContentTypeTok == 1114113

\* f"--{boundary}\nContent-Type: text/html;"
StartMarker == <<Dash, Dash, BoundaryTok, NL, ContentTypeTok, Semi>>
\* f"\n--{boundary}--"
TerminalMarker == <<NL, Dash, Dash, BoundaryTok, Dash, Dash>>
\* f"\n--{boundary}"
AnyMarker == <<NL, Dash, Dash, BoundaryTok>>
\* "href=" and "href=3D", the literal heads of the two link patterns
HrefEq == <<104, 114, 101, 102, 61>>
HrefEq3D == <<104, 114, 101, 102, 61, 51, 68>>

\* ------------------------------------------------------- string helpers

Min(S) == CHOOSE x \in S : \A y \in S : x <= y

\* s.find(sub, start): the 0-based index of the first occurrence of sub at or
\* after start, -1 when there is none
Find(s, sub, start) ==
    LET hits == {k \in start..(Len(s) - Len(sub)) :
                    s[k + 1] = sub[1] /\ SubSeq(s, k + 1, k + Len(sub)) = sub}
    IN  IF hits = {} THEN -1 ELSE Min(hits)

\* a slice index as Python normalises it: negative counts from the end,
\* and the result is clamped to 0..len
SliceIndex(n, len) ==
    IF n < 0 THEN (IF n + len < 0 THEN 0 ELSE n + len)
    ELSE IF n > len THEN len ELSE n

\* s[a:b]
Slice(s, a, b) ==
    LET lo == SliceIndex(a, Len(s))
        hi == SliceIndex(b, Len(s))
    IN  IF lo >= hi THEN <<>> ELSE SubSeq(s, lo + 1, hi)

\* s[a:]
SliceFrom(s, a) == Slice(s, a, Len(s))

\* open(..., 'r') reads in universal-newlines mode: "\r\n" and a lone "\r"
\* both arrive as "\n"
RECURSIVE TranslateFrom(_, _)
TranslateFrom(f, k) ==
    IF k > Len(f) THEN <<>>
    ELSE IF f[k] = CR
         THEN <<NL>> \o TranslateFrom(f, IF k < Len(f) /\ f[k + 1] = NL THEN k + 2 ELSE k + 1)
         ELSE <<f[k]>> \o TranslateFrom(f, k + 1)

TranslateNewlines(f) == TranslateFrom(f, 1)

\* ---------------------------------------------- quoted-printable, UTF-8

\* quopri.decodestring accepts a str only when every character is ASCII
IsAscii(c) == c < 128 \/ c = BoundaryTok \/ c = ContentTypeTok

IsAsciiText(s) == \A k \in 1..Len(s) : IsAscii(s[k])

IsHex(c) == (c >= 48 /\ c <= 57) \/ (c >= 65 /\ c <= 70) \/ (c >= 97 /\ c <= 102)

HexVal(c) == IF c <= 57 THEN c - 48 ELSE IF c <= 70 THEN c - 55 ELSE c - 87

\* the index of the next "\n" at or after k, Len(d) + 1 when there is none
NextNL(d, k) ==
    LET nls == {j \in k..Len(d) : d[j] = NL}
    IN  IF nls = {} THEN Len(d) + 1 ELSE Min(nls)

\* (a variant that leaves "=XX" undecoded)
RECURSIVE a2b_qp_keeps_hex(_, _)
a2b_qp_keeps_hex(d, in) ==
    IF in > Len(d) THEN <<>>
    ELSE IF d[in] # Eq THEN <<d[in]>> \o a2b_qp_keeps_hex(d, in + 1)
    ELSE IF in + 1 > Len(d) THEN <<>>
    ELSE IF d[in + 1] = NL \/ d[in + 1] = CR
         THEN a2b_qp_keeps_hex(d, (IF d[in + 1] = NL THEN in + 1 ELSE NextNL(d, in + 1)) + 1)
    ELSE IF d[in + 1] = Eq THEN <<Eq>> \o a2b_qp_keeps_hex(d, in + 2)
    ELSE <<Eq>> \o a2b_qp_keeps_hex(d, in + 1)

\* quopri.decodestring(s) is binascii.a2b_qp(s): "=XX" with two hex digits is
\* the byte XX, "=" before a line break is a soft line break and is dropped
\* with it, "==" is one "=", a last "=" is dropped, any other "=" stays
RECURSIVE a2b_qp_from(_, _)
a2b_qp_from(d, in) ==
    IF in > Len(d) THEN <<>>
    ELSE IF d[in] # Eq THEN <<d[in]>> \o a2b_qp_from(d, in + 1)
    ELSE IF in + 1 > Len(d) THEN <<>>
    ELSE IF d[in + 1] = NL \/ d[in + 1] = CR
         THEN a2b_qp_from(d, (IF d[in + 1] = NL THEN in + 1 ELSE NextNL(d, in + 1)) + 1)
    ELSE IF d[in + 1] = Eq THEN <<Eq>> \o a2b_qp_from(d, in + 2)
    ELSE IF in + 2 <= Len(d) /\ IsHex(d[in + 1]) /\ IsHex(d[in + 2])
         THEN <<16 * HexVal(d[in + 1]) + HexVal(d[in + 2])>> \o a2b_qp_from(d, in + 3)
    ELSE <<Eq>> \o a2b_qp_from(d, in + 1)

\* the bytes quopri.decodestring returns
decodestring(s) == a2b_qp_from(s, 1)

IsCont(b) == b >= 128 /\ b <= 191

\* the length of the well-formed UTF-8 sequence that starts at b[i], 0 when
\* the bytes there are not well-formed UTF-8
Utf8Len(b, i) ==
    LET c == b[i]
        n == Len(b)
    IN  IF IsAscii(c) THEN 1
        ELSE IF c >= 194 /\ c <= 223
             THEN (IF i + 1 <= n /\ IsCont(b[i + 1]) THEN 2 ELSE 0)
        ELSE IF c >= 224 /\ c <= 239
             THEN (IF /\ i + 2 <= n
                      /\ IsCont(b[i + 1]) /\ IsCont(b[i + 2])
                      /\ (c = 224 => b[i + 1] >= 160)
                      /\ (c = 237 => b[i + 1] <= 159)
                   THEN 3 ELSE 0)
        ELSE IF c >= 240 /\ c <= 244
             THEN (IF /\ i + 3 <= n
                      /\ IsCont(b[i + 1]) /\ IsCont(b[i + 2]) /\ IsCont(b[i + 3])
                      /\ (c = 240 => b[i + 1] >= 144)
                      /\ (c = 244 => b[i + 1] <= 143)
                   THEN 4 ELSE 0)
        ELSE 0

\* the code point of the well-formed sequence of length n at b[i]
Utf8Char(b, i, n) ==
    IF n = 1 THEN b[i]
    ELSE IF n = 2 THEN (b[i] - 192) * 64 + (b[i + 1] - 128)
    ELSE IF n = 3 THEN (b[i] - 224) * 4096 + (b[i + 1] - 128) * 64 + (b[i + 2] - 128)
    ELSE (b[i] - 240) * 262144 + (b[i + 1] - 128) * 4096
             + (b[i + 2] - 128) * 64 + (b[i + 3] - 128)

RECURSIVE Utf8ValidFrom(_, _)
Utf8ValidFrom(b, i) ==
    IF i > Len(b) THEN TRUE
    ELSE LET len == Utf8Len(b, i)
         IN  IF len = 0 THEN FALSE ELSE Utf8ValidFrom(b, i + len)

\* whether bytes.decode('utf-8') returns (it raises UnicodeDecodeError if not)
Utf8Valid(b) == Utf8ValidFrom(b, 1)

RECURSIVE Utf8From(_, _)
Utf8From(b, i) ==
    IF i > Len(b) THEN <<>>
    ELSE LET len == Utf8Len(b, i)
         IN  <<Utf8Char(b, i, len)>> \o Utf8From(b, i + len)

\* bytes.decode('utf-8') of well-formed bytes
Utf8Decode(b) == Utf8From(b, 1)

\* str.encode('utf-8') of text whose non-ASCII characters are below U+0800
RECURSIVE Utf8Encode(_)
Utf8Encode(s) ==
    IF s = <<>> THEN <<>>
    ELSE (IF IsAscii(Head(s)) THEN <<Head(s)>>
          ELSE <<192 + (Head(s) \div 64), 128 + (Head(s) % 64)>>) \o Utf8Encode(Tail(s))

\* whether print(text) succeeds on a stream of the given encoding
Encodable(text, encoding) ==
    encoding = "utf-8" \/ \A k \in 1..Len(text) : IsAscii(text[k])

\* ----------------------------------------------------------- re.findall

IsQuote(c) == c = DQ \/ c = SQ

\* The pattern  head ["\']([^"\']+)["\']  tried at index p of s (1-based):
\* the index of the closing quote of the match, 0 when there is no match
\* there.  The value class excludes both quotes, so the greedy run ends at
\* the next quote of either kind.
MatchEnd(s, head, p) ==
    LET q == p + Len(head)
    IN  IF /\ q + 2 <= Len(s)
           /\ SubSeq(s, p, q - 1) = head
           /\ IsQuote(s[q])
           /\ ~IsQuote(s[q + 1])
        THEN LET quotes == {k \in (q + 2)..Len(s) : IsQuote(s[k])}
             IN  IF quotes = {} THEN 0 ELSE Min(quotes)
        ELSE 0

\* the matches re.findall walks through, leftmost first, none overlapping:
\* at is the match's start, end its closing quote, value its group 1
RECURSIVE MatchesFrom(_, _, _)
MatchesFrom(s, head, p) ==
    IF p > Len(s) THEN <<>>
    ELSE LET e == MatchEnd(s, head, p)
         IN  IF e = 0 THEN MatchesFrom(s, head, p + 1)
             ELSE <<[at |-> p, end |-> e, value |-> SubSeq(s, p + Len(head) + 1, e - 1)]>>
                      \o MatchesFrom(s, head, e + 1)

\* (a variant that keeps the first match of each value only)
RECURSIVE Dedup(_)
Dedup(ms) ==
    IF ms = <<>> THEN <<>>
    ELSE LET rest == Dedup(SubSeq(ms, 1, Len(ms) - 1))
             last == ms[Len(ms)]
         IN  IF \E k \in 1..Len(rest) : rest[k].value = last.value
             THEN rest ELSE Append(rest, last)

findall_dedup(head, s) == Dedup(MatchesFrom(s, head, 1))

findall(head, s) == MatchesFrom(s, head, 1)

Values(ms) == [k \in 1..Len(ms) |-> ms[k].value]

\* ------------------------------------------------------------- the state

VARIABLES
    file,              \* latest_email.txt, as stored
    encoding,          \* the encoding of the standard output stream
    pc,                \* the statement decode_email.py is at
    email_content, html_start, html_end, html_section, body_start, html_body,
    decoded_html,
    links, link_spans, \* the findall result, and where each match lies
    raw_links, raw_spans,
    n,                 \* the index enumerate() is at
    out,               \* what was printed, one entry per print call or heading
    decoded_html_txt,  \* the fallback file decoded_html.txt
    exit_status,       \* -1 while running
    error,             \* the uncaught exception, "none" if none
    upc,               \* the statement fix_url.py is at
    fixed, decoded,
    url_out            \* what fix_url.py printed

inputs == <<file, encoding>>
located == <<email_content, html_start, html_end, html_section, body_start, html_body>>
found == <<links, link_spans, raw_links, raw_spans, n>>
ending == <<exit_status, error>>
uvars == <<upc, fixed, decoded, url_out>>
vars == <<inputs, pc, located, decoded_html, found, out, decoded_html_txt, ending, uvars>>

Line(kind, k, text) == [kind |-> kind, n |-> k, text |-> text]

Spans(ms) == [k \in 1..Len(ms) |-> [at |-> ms[k].at, end |-> ms[k].end]]

\* ---------------------------------------------------- decode_email.py

\* lines 6-7
ReadFile ==
    /\ pc = "read"
    /\ email_content' = TranslateNewlines(file)
    /\ pc' = "find_start"
    /\ UNCHANGED <<inputs, html_start, html_end, html_section, body_start, html_body,
                   decoded_html, found, out, decoded_html_txt, ending, uvars>>

\* (a variant that exits with status 0)
PartNotFoundExitsZero ==
    /\ pc = "find_start"
    /\ Find(email_content, StartMarker, 0) = -1
    /\ html_start' = -1
    /\ out' = Append(out, Line("diag", 0, <<>>))
    /\ exit_status' = 0
    /\ pc' = "done"
    /\ UNCHANGED <<inputs, email_content, html_end, html_section, body_start, html_body,
                   decoded_html, found, decoded_html_txt, error, uvars>>

\* lines 11-14, the marker is missing: the diagnostic and exit(1)
PartNotFound ==
    /\ pc = "find_start"
    /\ Find(email_content, StartMarker, 0) = -1
    /\ html_start' = -1
    /\ out' = Append(out, Line("diag", 0, <<>>))
    /\ exit_status' = 1
    /\ pc' = "done"
    /\ UNCHANGED <<inputs, email_content, html_end, html_section, body_start, html_body,
                   decoded_html, found, decoded_html_txt, error, uvars>>

\* lines 11-12, the marker is there
LocatePart ==
    /\ pc = "find_start"
    /\ Find(email_content, StartMarker, 0) # -1
    /\ html_start' = Find(email_content, StartMarker, 0)
    /\ pc' = "find_end"
    /\ UNCHANGED <<inputs, email_content, html_end, html_section, body_start, html_body,
                   decoded_html, found, out, decoded_html_txt, ending, uvars>>

\* lines 17-19: the terminal marker first, any boundary line only if there is none
EndOfPart(content, start) ==
    LET terminal == Find(content, TerminalMarker, start)
    IN  IF terminal = -1 THEN Find(content, AnyMarker, start + 1) ELSE terminal

FindEnd ==
    /\ pc = "find_end"
    /\ html_end' = EndOfPart(email_content, html_start)
    /\ pc' = "slice"
    /\ UNCHANGED <<inputs, email_content, html_start, html_section, body_start, html_body,
                   decoded_html, found, out, decoded_html_txt, ending, uvars>>

\* line 22
ExtractSection ==
    /\ pc = "slice"
    /\ html_section' = Slice(email_content, html_start, html_end)
    /\ pc' = "body"
    /\ UNCHANGED <<inputs, email_content, html_start, html_end, body_start, html_body,
                   decoded_html, found, out, decoded_html_txt, ending, uvars>>

\* (a variant that steps over one character of the separator only)
BodyStartOffByOne(section) ==
    LET lf == Find(section, <<NL, NL>>, 0)
        crlf == IF lf = -1 THEN Find(section, <<CR, NL, CR, NL>>, 0) ELSE lf
    IN  IF crlf = -1 THEN 0 ELSE crlf + 1

\* lines 25-31
BodyStart(section) ==
    LET lf == Find(section, <<NL, NL>>, 0)
        crlf == IF lf = -1 THEN Find(section, <<CR, NL, CR, NL>>, 0) ELSE lf
    IN  IF crlf = -1 THEN 0 ELSE crlf + 2

\* lines 25-33
ExtractBody ==
    /\ pc = "body"
    /\ body_start' = BodyStart(html_section)
    /\ html_body' = SliceFrom(html_section, BodyStart(html_section))
    /\ pc' = "decode"
    /\ UNCHANGED <<inputs, email_content, html_start, html_end, html_section,
                   decoded_html, found, out, decoded_html_txt, ending, uvars>>

\* line 36 raises: ValueError for a non-ASCII str, UnicodeDecodeError for bytes
\* that are not UTF-8.  Nothing catches it.
DecodeFails ==
    /\ pc = "decode"
    /\ ~(IsAsciiText(html_body) /\ Utf8Valid(decodestring(html_body)))
    /\ error' = IF IsAsciiText(html_body) THEN "UnicodeDecodeError" ELSE "ValueError"
    /\ exit_status' = 1
    /\ pc' = "done"
    /\ UNCHANGED <<inputs, located, decoded_html, found, out, decoded_html_txt, uvars>>

\* line 36
DecodeBody ==
    /\ pc = "decode"
    /\ IsAsciiText(html_body)
    /\ Utf8Valid(decodestring(html_body))
    /\ decoded_html' = Utf8Decode(decodestring(html_body))
    /\ pc' = "print_html"
    /\ UNCHANGED <<inputs, located, found, out, decoded_html_txt, ending, uvars>>

\* lines 38-42: the heading and the decoded HTML
PrintHtml ==
    /\ pc = "print_html"
    /\ Encodable(decoded_html, encoding)
    /\ out' = out \o <<Line("heading", 1, <<>>), Line("html", 0, decoded_html)>>
    /\ pc' = "links"
    /\ UNCHANGED <<inputs, located, decoded_html, found, decoded_html_txt, ending, uvars>>

\* lines 38-47: print raises UnicodeEncodeError, the file is written instead
PrintHtmlFallback ==
    /\ pc = "print_html"
    /\ ~Encodable(decoded_html, encoding)
    /\ decoded_html_txt' = [written |-> TRUE, content |-> decoded_html]
    /\ out' = out \o <<Line("heading", 1, <<>>), Line("notice", 0, <<>>)>>
    /\ pc' = "links"
    /\ UNCHANGED <<inputs, located, decoded_html, found, ending, uvars>>

\* lines 48-53
ExtractLinks ==
    /\ pc = "links"
    /\ out' = Append(out, Line("heading", 2, <<>>))
    /\ links' = Values(findall(HrefEq, decoded_html))
    /\ link_spans' = Spans(findall(HrefEq, decoded_html))
    /\ n' = 1
    /\ pc' = "print_links"
    /\ UNCHANGED <<inputs, located, decoded_html, raw_links, raw_spans,
                   decoded_html_txt, ending, uvars>>

\* lines 54-56, one turn of the loop
PrintLink ==
    /\ pc = "print_links"
    /\ n <= Len(links)
    /\ Encodable(links[n], encoding)
    /\ out' = out \o <<Line("link_no", n, <<>>), Line("link", n, links[n])>>
    /\ n' = n + 1
    /\ UNCHANGED <<inputs, pc, located, decoded_html, links, link_spans, raw_links,
                   raw_spans, decoded_html_txt, ending, uvars>>

\* lines 54-56: print(link) raises UnicodeEncodeError, which nothing catches
PrintLinkFails ==
    /\ pc = "print_links"
    /\ n <= Len(links)
    /\ ~Encodable(links[n], encoding)
    /\ out' = Append(out, Line("link_no", n, <<>>))
    /\ error' = "UnicodeEncodeError"
    /\ exit_status' = 1
    /\ pc' = "done"
    /\ UNCHANGED <<inputs, located, decoded_html, found, decoded_html_txt, uvars>>

\* lines 59-62, once the first loop is through
ExtractRawLinks ==
    /\ pc = "print_links"
    /\ n > Len(links)
    /\ out' = Append(out, Line("heading", 3, <<>>))
    /\ raw_links' = Values(findall(HrefEq3D, html_body))
    /\ raw_spans' = Spans(findall(HrefEq3D, html_body))
    /\ n' = 1
    /\ pc' = "print_raw"
    /\ UNCHANGED <<inputs, located, decoded_html, links, link_spans,
                   decoded_html_txt, ending, uvars>>

\* line 67: the raw value decoded on its own
decoded_link(link) == Utf8Decode(decodestring(Utf8Encode(link)))

\* lines 63-68, one turn of the loop
PrintRawLink ==
    /\ pc = "print_raw"
    /\ n <= Len(raw_links)
    /\ Utf8Valid(decodestring(Utf8Encode(raw_links[n])))
    /\ Encodable(decoded_link(raw_links[n]), encoding)
    /\ out' = out \o <<Line("raw_no", n, <<>>), Line("raw", n, raw_links[n]),
                       Line("decoded", n, decoded_link(raw_links[n]))>>
    /\ n' = n + 1
    /\ UNCHANGED <<inputs, pc, located, decoded_html, links, link_spans, raw_links,
                   raw_spans, decoded_html_txt, ending, uvars>>

\* lines 63-68: line 67 or line 68 raises, which nothing catches
PrintRawLinkFails ==
    /\ pc = "print_raw"
    /\ n <= Len(raw_links)
    /\ ~(/\ Utf8Valid(decodestring(Utf8Encode(raw_links[n])))
         /\ Encodable(decoded_link(raw_links[n]), encoding))
    /\ error' = IF Utf8Valid(decodestring(Utf8Encode(raw_links[n])))
                THEN "UnicodeEncodeError" ELSE "UnicodeDecodeError"
    /\ out' = out \o <<Line("raw_no", n, <<>>), Line("raw", n, raw_links[n])>>
    /\ exit_status' = 1
    /\ pc' = "done"
    /\ UNCHANGED <<inputs, located, decoded_html, found, decoded_html_txt, uvars>>

\* the end of the script: status 0
Finish ==
    /\ pc = "print_raw"
    /\ n > Len(raw_links)
    /\ exit_status' = 0
    /\ pc' = "done"
    /\ UNCHANGED <<inputs, located, decoded_html, found, out, decoded_html_txt, error, uvars>>

\* ------------------------------------------------------------ fix_url.py

\* line 4: the embedded literal, 735 characters.  The corruption marker is the
\* three characters U+00EF U+00BF U+00BD (239, 191, 189).
malformed == <<
    104, 116, 116, 112, 115, 58, 47, 47, 119, 119, 119, 46, 112, 97, 121, 112, 97, 108, 46, 99,
    111, 109, 47, 115, 105, 103, 110, 105, 110, 63, 101, 120, 112, 73, 100, 61, 99, 111, 110, 102,
    105, 114, 109, 69, 109, 97, 105, 108, 38, 97, 109, 112, 59, 99, 99, 239, 191, 189, 50, 51,
    56, 54, 54, 53, 55, 54, 55, 56, 50, 52, 54, 49, 56, 50, 57, 55, 38, 97, 109, 112,
    59, 101, 109, 61, 86, 54, 77, 78, 55, 48, 68, 109, 68, 108, 49, 54, 122, 78, 111, 85,
    74, 66, 65, 77, 101, 57, 109, 52, 110, 119, 97, 48, 86, 80, 122, 82, 114, 84, 117, 121,
    51, 76, 121, 70, 49, 109, 89, 108, 80, 112, 57, 76, 71, 73, 95, 77, 121, 102, 104, 102,
    49, 108, 52, 38, 97, 109, 112, 59, 114, 101, 116, 117, 114, 110, 85, 114, 105, 61, 104, 116,
    116, 112, 115, 37, 51, 65, 37, 50, 70, 37, 50, 70, 119, 119, 119, 46, 112, 97, 121, 112,
    97, 108, 46, 99, 111, 109, 37, 50, 70, 109, 101, 112, 37, 50, 70, 100, 97, 115, 104, 98,
    111, 97, 114, 100, 38, 97, 109, 112, 59, 118, 61, 49, 38, 97, 109, 112, 59, 117, 116, 109,
    95, 115, 111, 117, 114, 99, 101, 61, 117, 110, 112, 38, 97, 109, 112, 59, 117, 116, 109, 95,
    109, 101, 100, 105, 117, 109, 61, 101, 109, 97, 105, 108, 38, 97, 109, 112, 59, 117, 116, 109,
    95, 99, 97, 109, 112, 97, 105, 103, 110, 61, 82, 84, 48, 48, 48, 53, 57, 52, 38, 97,
    109, 112, 59, 117, 116, 109, 95, 117, 110, 112, 116, 105, 100, 106, 48, 51, 97, 48, 53, 54,
    45, 99, 102, 54, 101, 45, 49, 49, 102, 48, 45, 57, 51, 53, 101, 45, 49, 100, 55, 56,
    48, 50, 52, 97, 97, 102, 100, 54, 38, 97, 109, 112, 59, 112, 112, 105, 100, 61, 82, 84,
    48, 48, 48, 53, 57, 52, 38, 97, 109, 112, 59, 99, 110, 97, 99, 61, 85, 83, 38, 97,
    109, 112, 59, 114, 115, 116, 97, 61, 101, 110, 95, 85, 83, 37, 50, 56, 101, 110, 45, 85,
    83, 37, 50, 57, 38, 97, 109, 112, 59, 99, 117, 115, 116, 61, 72, 51, 55, 75, 76, 67,
    78, 50, 87, 88, 74, 55, 78, 38, 97, 109, 112, 59, 117, 110, 112, 116, 105, 100, 106, 48,
    51, 97, 48, 53, 54, 45, 99, 102, 54, 101, 45, 49, 49, 102, 48, 45, 57, 51, 53, 101,
    45, 49, 100, 55, 56, 48, 50, 52, 97, 97, 102, 100, 54, 38, 97, 109, 112, 59, 99, 97,
    108, 99, 239, 191, 189, 97, 55, 97, 53, 53, 48, 50, 57, 102, 51, 48, 38, 97, 109, 112,
    59, 117, 110, 112, 95, 116, 112, 99, 105, 100, 239, 191, 189, 116, 105, 118, 97, 116, 105, 111,
    110, 45, 99, 111, 110, 102, 105, 114, 109, 97, 116, 105, 111, 110, 45, 101, 109, 97, 105, 108,
    45, 50, 53, 49, 38, 97, 109, 112, 59, 112, 97, 103, 101, 61, 109, 97, 105, 110, 37, 51,
    65, 101, 109, 97, 105, 108, 37, 51, 65, 82, 84, 48, 48, 48, 53, 57, 52, 38, 97, 109,
    112, 59, 112, 103, 114, 112, 61, 109, 97, 105, 110, 37, 51, 65, 101, 109, 97, 105, 108, 38,
    97, 109, 112, 59, 101, 61, 99, 108, 38, 97, 109, 112, 59, 109, 99, 104, 110, 61, 101, 109,
    38, 97, 109, 112, 59, 115, 61, 99, 105, 38, 97, 109, 112, 59, 109, 97, 105, 108, 61, 115,
    121, 115, 38, 97, 109, 112, 59, 97, 112, 112, 86, 101, 114, 115, 105, 111, 110, 61, 49, 46,
    51, 55, 49, 46, 48, 38, 97, 109, 112, 59, 116, 101, 110, 97, 110, 116, 95, 110, 97, 109,
    101, 61, 80, 65, 89, 80, 65, 76, 38, 97, 109, 112, 59, 120, 116, 239, 191, 189, 53, 53,
    56, 53, 37, 50, 67, 49, 53, 48, 57, 52, 56, 37, 50, 67, 49, 48, 52, 48, 51, 56,
    38, 97, 109, 112, 59, 108, 105, 110, 107, 95, 114, 101, 102, 61, 119, 119, 119, 46, 112, 97,
    121, 112, 97, 108, 46, 99, 111, 109, 95, 115, 105, 103, 110, 105, 110>>

\* "&amp;" and "&"
AmpEntity == <<38, 97, 109, 112, 59>>
Ampersand == <<38>>

\* the corruption marker
Marker == <<239, 191, 189>>

\* lines 11-24: the substring repairs, in the order they are applied
RepairRules == <<
    \* &cc<marker> -> &cc=
    [old |-> <<38, 99, 99, 239, 191, 189>>,
     new |-> <<38, 99, 99, 61>>],
    \* &calc<marker>a7a55029f30 -> &calc=c9a7a55029f30
    [old |-> <<38, 99, 97, 108, 99, 239, 191, 189, 97, 55, 97, 53, 53, 48, 50, 57, 102, 51, 48>>,
     new |-> <<38, 99, 97, 108, 99, 61, 99, 57, 97, 55, 97, 53, 53, 48, 50, 57, 102, 51, 48>>],
    \* &unp_tpcid<marker>tivation -> &unp_tpcid=activation
    [old |-> <<
             38, 117, 110, 112, 95, 116, 112, 99, 105, 100, 239, 191, 189, 116, 105, 118, 97, 116, 105, 111,
             110>>,
     new |-> <<
             38, 117, 110, 112, 95, 116, 112, 99, 105, 100, 61, 97, 99, 116, 105, 118, 97, 116, 105, 111,
             110>>],
    \* &xt<marker>5585 -> &xt=145585
    [old |-> <<38, 120, 116, 239, 191, 189, 53, 53, 56, 53>>,
     new |-> <<38, 120, 116, 61, 49, 52, 53, 53, 56, 53>>],
    \* &utm_unptidj03a056 -> &utm_unptid=j03a056
    [old |-> <<38, 117, 116, 109, 95, 117, 110, 112, 116, 105, 100, 106, 48, 51, 97, 48, 53, 54>>,
     new |-> <<38, 117, 116, 109, 95, 117, 110, 112, 116, 105, 100, 61, 106, 48, 51, 97, 48, 53, 54>>],
    \* &unptidj03a056 -> &unptid=j03a056
    [old |-> <<38, 117, 110, 112, 116, 105, 100, 106, 48, 51, 97, 48, 53, 54>>,
     new |-> <<38, 117, 110, 112, 116, 105, 100, 61, 106, 48, 51, 97, 48, 53, 54>>]>>

\* html.entities.html5: the names that are recognised without a closing ";"
\* (each is in the table with the ";" too, for the same character), and the
\* character of each.  Every other name of that table ends in ";".
LegacyNames == <<
    [name |-> <<65, 69, 108, 105, 103>>, char |-> 198],  \* AElig
    [name |-> <<65, 77, 80>>, char |-> 38],  \* AMP
    [name |-> <<65, 97, 99, 117, 116, 101>>, char |-> 193],  \* Aacute
    [name |-> <<65, 99, 105, 114, 99>>, char |-> 194],  \* Acirc
    [name |-> <<65, 103, 114, 97, 118, 101>>, char |-> 192],  \* Agrave
    [name |-> <<65, 114, 105, 110, 103>>, char |-> 197],  \* Aring
    [name |-> <<65, 116, 105, 108, 100, 101>>, char |-> 195],  \* Atilde
    [name |-> <<65, 117, 109, 108>>, char |-> 196],  \* Auml
    [name |-> <<67, 79, 80, 89>>, char |-> 169],  \* COPY
    [name |-> <<67, 99, 101, 100, 105, 108>>, char |-> 199],  \* Ccedil
    [name |-> <<69, 84, 72>>, char |-> 208],  \* ETH
    [name |-> <<69, 97, 99, 117, 116, 101>>, char |-> 201],  \* Eacute
    [name |-> <<69, 99, 105, 114, 99>>, char |-> 202],  \* Ecirc
    [name |-> <<69, 103, 114, 97, 118, 101>>, char |-> 200],  \* Egrave
    [name |-> <<69, 117, 109, 108>>, char |-> 203],  \* Euml
    [name |-> <<71, 84>>, char |-> 62],  \* GT
    [name |-> <<73, 97, 99, 117, 116, 101>>, char |-> 205],  \* Iacute
    [name |-> <<73, 99, 105, 114, 99>>, char |-> 206],  \* Icirc
    [name |-> <<73, 103, 114, 97, 118, 101>>, char |-> 204],  \* Igrave
    [name |-> <<73, 117, 109, 108>>, char |-> 207],  \* Iuml
    [name |-> <<76, 84>>, char |-> 60],  \* LT
    [name |-> <<78, 116, 105, 108, 100, 101>>, char |-> 209],  \* Ntilde
    [name |-> <<79, 97, 99, 117, 116, 101>>, char |-> 211],  \* Oacute
    [name |-> <<79, 99, 105, 114, 99>>, char |-> 212],  \* Ocirc
    [name |-> <<79, 103, 114, 97, 118, 101>>, char |-> 210],  \* Ograve
    [name |-> <<79, 115, 108, 97, 115, 104>>, char |-> 216],  \* Oslash
    [name |-> <<79, 116, 105, 108, 100, 101>>, char |-> 213],  \* Otilde
    [name |-> <<79, 117, 109, 108>>, char |-> 214],  \* Ouml
    [name |-> <<81, 85, 79, 84>>, char |-> 34],  \* QUOT
    [name |-> <<82, 69, 71>>, char |-> 174],  \* REG
    [name |-> <<84, 72, 79, 82, 78>>, char |-> 222],  \* THORN
    [name |-> <<85, 97, 99, 117, 116, 101>>, char |-> 218],  \* Uacute
    [name |-> <<85, 99, 105, 114, 99>>, char |-> 219],  \* Ucirc
    [name |-> <<85, 103, 114, 97, 118, 101>>, char |-> 217],  \* Ugrave
    [name |-> <<85, 117, 109, 108>>, char |-> 220],  \* Uuml
    [name |-> <<89, 97, 99, 117, 116, 101>>, char |-> 221],  \* Yacute
    [name |-> <<97, 97, 99, 117, 116, 101>>, char |-> 225],  \* aacute
    [name |-> <<97, 99, 105, 114, 99>>, char |-> 226],  \* acirc
    [name |-> <<97, 99, 117, 116, 101>>, char |-> 180],  \* acute
    [name |-> <<97, 101, 108, 105, 103>>, char |-> 230],  \* aelig
    [name |-> <<97, 103, 114, 97, 118, 101>>, char |-> 224],  \* agrave
    [name |-> <<97, 109, 112>>, char |-> 38],  \* amp
    [name |-> <<97, 114, 105, 110, 103>>, char |-> 229],  \* aring
    [name |-> <<97, 116, 105, 108, 100, 101>>, char |-> 227],  \* atilde
    [name |-> <<97, 117, 109, 108>>, char |-> 228],  \* auml
    [name |-> <<98, 114, 118, 98, 97, 114>>, char |-> 166],  \* brvbar
    [name |-> <<99, 99, 101, 100, 105, 108>>, char |-> 231],  \* ccedil
    [name |-> <<99, 101, 100, 105, 108>>, char |-> 184],  \* cedil
    [name |-> <<99, 101, 110, 116>>, char |-> 162],  \* cent
    [name |-> <<99, 111, 112, 121>>, char |-> 169],  \* copy
    [name |-> <<99, 117, 114, 114, 101, 110>>, char |-> 164],  \* curren
    [name |-> <<100, 101, 103>>, char |-> 176],  \* deg
    [name |-> <<100, 105, 118, 105, 100, 101>>, char |-> 247],  \* divide
    [name |-> <<101, 97, 99, 117, 116, 101>>, char |-> 233],  \* eacute
    [name |-> <<101, 99, 105, 114, 99>>, char |-> 234],  \* ecirc
    [name |-> <<101, 103, 114, 97, 118, 101>>, char |-> 232],  \* egrave
    [name |-> <<101, 116, 104>>, char |-> 240],  \* eth
    [name |-> <<101, 117, 109, 108>>, char |-> 235],  \* euml
    [name |-> <<102, 114, 97, 99, 49, 50>>, char |-> 189],  \* frac12
    [name |-> <<102, 114, 97, 99, 49, 52>>, char |-> 188],  \* frac14
    [name |-> <<102, 114, 97, 99, 51, 52>>, char |-> 190],  \* frac34
    [name |-> <<103, 116>>, char |-> 62],  \* gt
    [name |-> <<105, 97, 99, 117, 116, 101>>, char |-> 237],  \* iacute
    [name |-> <<105, 99, 105, 114, 99>>, char |-> 238],  \* icirc
    [name |-> <<105, 101, 120, 99, 108>>, char |-> 161],  \* iexcl
    [name |-> <<105, 103, 114, 97, 118, 101>>, char |-> 236],  \* igrave
    [name |-> <<105, 113, 117, 101, 115, 116>>, char |-> 191],  \* iquest
    [name |-> <<105, 117, 109, 108>>, char |-> 239],  \* iuml
    [name |-> <<108, 97, 113, 117, 111>>, char |-> 171],  \* laquo
    [name |-> <<108, 116>>, char |-> 60],  \* lt
    [name |-> <<109, 97, 99, 114>>, char |-> 175],  \* macr
    [name |-> <<109, 105, 99, 114, 111>>, char |-> 181],  \* micro
    [name |-> <<109, 105, 100, 100, 111, 116>>, char |-> 183],  \* middot
    [name |-> <<110, 98, 115, 112>>, char |-> 160],  \* nbsp
    [name |-> <<110, 111, 116>>, char |-> 172],  \* not
    [name |-> <<110, 116, 105, 108, 100, 101>>, char |-> 241],  \* ntilde
    [name |-> <<111, 97, 99, 117, 116, 101>>, char |-> 243],  \* oacute
    [name |-> <<111, 99, 105, 114, 99>>, char |-> 244],  \* ocirc
    [name |-> <<111, 103, 114, 97, 118, 101>>, char |-> 242],  \* ograve
    [name |-> <<111, 114, 100, 102>>, char |-> 170],  \* ordf
    [name |-> <<111, 114, 100, 109>>, char |-> 186],  \* ordm
    [name |-> <<111, 115, 108, 97, 115, 104>>, char |-> 248],  \* oslash
    [name |-> <<111, 116, 105, 108, 100, 101>>, char |-> 245],  \* otilde
    [name |-> <<111, 117, 109, 108>>, char |-> 246],  \* ouml
    [name |-> <<112, 97, 114, 97>>, char |-> 182],  \* para
    [name |-> <<112, 108, 117, 115, 109, 110>>, char |-> 177],  \* plusmn
    [name |-> <<112, 111, 117, 110, 100>>, char |-> 163],  \* pound
    [name |-> <<113, 117, 111, 116>>, char |-> 34],  \* quot
    [name |-> <<114, 97, 113, 117, 111>>, char |-> 187],  \* raquo
    [name |-> <<114, 101, 103>>, char |-> 174],  \* reg
    [name |-> <<115, 101, 99, 116>>, char |-> 167],  \* sect
    [name |-> <<115, 104, 121>>, char |-> 173],  \* shy
    [name |-> <<115, 117, 112, 49>>, char |-> 185],  \* sup1
    [name |-> <<115, 117, 112, 50>>, char |-> 178],  \* sup2
    [name |-> <<115, 117, 112, 51>>, char |-> 179],  \* sup3
    [name |-> <<115, 122, 108, 105, 103>>, char |-> 223],  \* szlig
    [name |-> <<116, 104, 111, 114, 110>>, char |-> 254],  \* thorn
    [name |-> <<116, 105, 109, 101, 115>>, char |-> 215],  \* times
    [name |-> <<117, 97, 99, 117, 116, 101>>, char |-> 250],  \* uacute
    [name |-> <<117, 99, 105, 114, 99>>, char |-> 251],  \* ucirc
    [name |-> <<117, 103, 114, 97, 118, 101>>, char |-> 249],  \* ugrave
    [name |-> <<117, 109, 108>>, char |-> 168],  \* uml
    [name |-> <<117, 117, 109, 108>>, char |-> 252],  \* uuml
    [name |-> <<121, 97, 99, 117, 116, 101>>, char |-> 253],  \* yacute
    [name |-> <<121, 101, 110>>, char |-> 165],  \* yen
    [name |-> <<121, 117, 109, 108>>, char |-> 255]>>  \* yuml

Max(S) == CHOOSE x \in S : \A y \in S : x >= y

\* str.replace(old, new): every occurrence of old, left to right, none
\* overlapping; start is the 0-based index the scan is at
RECURSIVE ReplaceFrom(_, _, _, _)
ReplaceFrom(s, old, new, start) ==
    LET k == Find(s, old, start)
    IN  IF k = -1 THEN SliceFrom(s, start)
        ELSE Slice(s, start, k) \o new \o ReplaceFrom(s, old, new, k + Len(old))

\* (a variant that replaces the first occurrence only)
replace_first_only(s, old, new) ==
    LET k == Find(s, old, 0)
    IN  IF k = -1 THEN s ELSE Slice(s, 0, k) \o new \o SliceFrom(s, k + Len(old))

replace(s, old, new) == ReplaceFrom(s, old, new, 0)

\* html.unescape.  A reference is "&" and then "#" digits, "#x" hex digits,
\* or 1 to 32 characters none of which is a tab, a line feed, a form feed, a
\* space or one of < & # ; -- each with a ";" after it if there is one.
IsDigit(c) == c >= 48 /\ c <= 57

NameChar(c) == c \notin {9, 10, 12, 32, 60, Amp, Hash, Semi}

\* whether c is of the class named: "digit", "hex" or "name"
InClass(c, class) ==
    CASE class = "digit" -> IsDigit(c)
      [] class = "hex"   -> IsHex(c)
      [] class = "name"  -> NameChar(c)

\* how many characters from s[p] on are of the class
RunLength(s, p, class) ==
    LET stops == {k \in p..Len(s) : ~InClass(s[k], class)}
    IN  (IF stops = {} THEN Len(s) + 1 ELSE Min(stops)) - p

WithSemi(s, p, len) == IF p + len <= Len(s) /\ s[p + len] = Semi THEN len + 1 ELSE len

\* the length of group 1 of the reference whose "&" is at s[p - 1], 0 if the
\* pattern does not match there
CharrefLength(s, p) ==
    IF p > Len(s) THEN 0
    ELSE IF s[p] = Hash
         THEN IF RunLength(s, p + 1, "digit") > 0
              THEN WithSemi(s, p, 1 + RunLength(s, p + 1, "digit"))
              ELSE IF /\ p + 1 <= Len(s)
                      /\ s[p + 1] \in {88, 120}
                      /\ RunLength(s, p + 2, "hex") > 0
                   THEN WithSemi(s, p, 2 + RunLength(s, p + 2, "hex"))
                   ELSE 0
    ELSE LET run == RunLength(s, p, "name")
             len == IF run > 32 THEN 32 ELSE run
         IN  IF len = 0 THEN 0 ELSE WithSemi(s, p, len)

LegacyIndex(name) ==
    LET ks == {k \in 1..Len(LegacyNames) : LegacyNames[k].name = name}
    IN  IF ks = {} THEN 0 ELSE Min(ks)

\* s, without its ";" if it has one
Stem(s) == IF s # <<>> /\ s[Len(s)] = Semi THEN SubSeq(s, 1, Len(s) - 1) ELSE s

\* whether s is a name of the table (of the names that end in ";" the model
\* knows those whose stem is a legacy name)
InHtml5(s) == LegacyIndex(Stem(s)) > 0

Html5(s) == <<LegacyNames[LegacyIndex(Stem(s))].char>>

RECURSIVE Number(_, _)
Number(ds, base) ==
    IF ds = <<>> THEN 0
    ELSE Number(SubSeq(ds, 1, Len(ds) - 1), base) * base + HexVal(ds[Len(ds)])

\* (a variant that loses the "&" of a reference that names no entity)
replace_charref_drops_amp(s) ==
    IF s[1] = Hash
    THEN LET num == IF s[2] \in {88, 120} THEN Number(Stem(SubSeq(s, 3, Len(s))), 16)
                    ELSE Number(Stem(SubSeq(s, 2, Len(s))), 10)
         IN  IF (num >= 55296 /\ num <= 57343) \/ num > 1114111 THEN <<65533>> ELSE <<num>>
    ELSE IF InHtml5(s) THEN Html5(s)
    ELSE LET xs == {x \in 2..(Len(s) - 1) : InHtml5(SubSeq(s, 1, x))}
         IN  IF xs = {} THEN s
             ELSE Html5(SubSeq(s, 1, Max(xs))) \o SubSeq(s, Max(xs) + 1, Len(s))

\* _replace_charref on group 1.  A numeric reference gives the character of
\* that number, U+FFFD for a surrogate or a number past U+10FFFF (the remapping
\* of control characters is left out: the scripts' text holds no "#").  A named
\* one gives the table's character for the name, or for its longest prefix of
\* two or more characters that is a name, and is left as it is otherwise.
replace_charref(s) ==
    IF s[1] = Hash
    THEN LET num == IF s[2] \in {88, 120} THEN Number(Stem(SubSeq(s, 3, Len(s))), 16)
                    ELSE Number(Stem(SubSeq(s, 2, Len(s))), 10)
         IN  IF (num >= 55296 /\ num <= 57343) \/ num > 1114111 THEN <<65533>> ELSE <<num>>
    ELSE IF InHtml5(s) THEN Html5(s)
    ELSE LET xs == {x \in 2..(Len(s) - 1) : InHtml5(SubSeq(s, 1, x))}
         IN  IF xs = {} THEN <<Amp>> \o s
             ELSE Html5(SubSeq(s, 1, Max(xs))) \o SubSeq(s, Max(xs) + 1, Len(s))

\* _charref.sub(_replace_charref, s), from the 0-based index start on
RECURSIVE UnescapeFrom(_, _)
UnescapeFrom(s, start) ==
    LET k == Find(s, Ampersand, start)
    IN  IF k = -1 THEN SliceFrom(s, start)
        ELSE LET len == CharrefLength(s, k + 2)
             IN  IF len = 0
                 THEN Slice(s, start, k + 1) \o UnescapeFrom(s, k + 1)
                 ELSE Slice(s, start, k) \o replace_charref(SubSeq(s, k + 2, k + 1 + len))
                          \o UnescapeFrom(s, k + 1 + len)

unescape(s) == UnescapeFrom(s, 0)

\* line 7
ReplaceEntities ==
    /\ upc = "entities"
    /\ fixed' = replace(malformed, AmpEntity, Ampersand)
    /\ upc' = "rule1"
    /\ UNCHANGED <<inputs, pc, located, decoded_html, found, out, decoded_html_txt, ending,
                   decoded, url_out>>

RuleAt(at) ==
    CASE at = "rule1" -> 1 [] at = "rule2" -> 2 [] at = "rule3" -> 3
      [] at = "rule4" -> 4 [] at = "rule5" -> 5 [] at = "rule6" -> 6 [] OTHER -> 0

AfterRule(k) ==
    CASE k = 1 -> "rule2" [] k = 2 -> "rule3" [] k = 3 -> "rule4"
      [] k = 4 -> "rule5" [] k = 5 -> "rule6" [] OTHER -> "print_fixed"

\* lines 11, 14, 17, 20, 23, 24: one repair
ApplyRule ==
    /\ RuleAt(upc) > 0
    /\ fixed' = replace(fixed, RepairRules[RuleAt(upc)].old, RepairRules[RuleAt(upc)].new)
    /\ upc' = AfterRule(RuleAt(upc))
    /\ UNCHANGED <<inputs, pc, located, decoded_html, found, out, decoded_html_txt, ending,
                   decoded, url_out>>

\* lines 26-28
PrintCorrected ==
    /\ upc = "print_fixed"
    /\ url_out' = Append(url_out, Line("corrected", 0, fixed))
    /\ upc' = "unescape"
    /\ UNCHANGED <<inputs, pc, located, decoded_html, found, out, decoded_html_txt, ending,
                   fixed, decoded>>

\* lines 29-30
Unescape ==
    /\ upc = "unescape"
    /\ decoded' = unescape(fixed)
    /\ upc' = "print_decoded"
    /\ UNCHANGED <<inputs, pc, located, decoded_html, found, out, decoded_html_txt, ending,
                   fixed, url_out>>

\* line 31
PrintDecoded ==
    /\ upc = "print_decoded"
    /\ url_out' = Append(url_out, Line("decoded", 0, decoded))
    /\ upc' = "done"
    /\ UNCHANGED <<inputs, pc, located, decoded_html, found, out, decoded_html_txt, ending,
                   fixed, decoded>>

\* ------------------------------------------------------------ the inputs

\* how many chunks a generated file, and how many pieces a generated body, has
MaxChunks == 5
MaxPieces == 4

RECURSIVE Concat(_)
Concat(ss) == IF ss = <<>> THEN <<>> ELSE Head(ss) \o Concat(Tail(ss))

SeqsUpTo(S, max) == UNION {[1..k -> S] : k \in 0..max}

\* files built of the markers, line ends and text around them
Chunks == {StartMarker, TerminalMarker, AnyMarker, <<NL>>, <<CR>>, <<LetterX>>}

StructureFiles == {Concat(cs) : cs \in SeqsUpTo(Chunks, MaxChunks)}

\* files that miss the marker by one character, and one that spells it with
\* a CR LF line end
NearMissFiles ==
    { <<Dash, Dash, BoundaryTok, CR, NL, ContentTypeTok, Semi, CR, NL, CR, NL, LetterX>>,
      <<Dash, BoundaryTok, NL, ContentTypeTok, Semi, NL, NL, LetterX>>,
      <<Dash, Dash, BoundaryTok, ContentTypeTok, Semi, NL, NL, LetterX>>,
      <<Dash, Dash, BoundaryTok, NL, ContentTypeTok, NL, NL, LetterX>>,
      <<Dash, Dash, BoundaryTok, NL, NL, LetterX>>,
      <<Dash, Dash, BoundaryTok, Dash, Dash, NL, ContentTypeTok, Semi>> }

\* a well-formed message around a body: the part's header line, a blank
\* line, the body, the terminal boundary line
Message(body) == StartMarker \o <<NL, NL>> \o body \o TerminalMarker

\* href="  href=3D"  x"  x'  y"
ScanPieces ==
    { HrefEq \o <<DQ>>, HrefEq3D \o <<DQ>>, <<LetterX, DQ>>, <<LetterX, SQ>>, <<LetterY, DQ>> }

\* href=3D"  x"  a soft line break  =22  =C3=A9
CodecPieces ==
    { HrefEq3D \o <<DQ>>, <<LetterX, DQ>>, <<Eq, NL>>, <<Eq, 50, 50>>,
      <<Eq, 67, 51, Eq, 65, 57>> }

\* bodies that line 36 rejects: a lone =C3, a character that is not ASCII
RejectedBodies == { <<LetterX, Eq, 67, 51, LetterX>>, <<LetterX, EAcute>> }

LinkFiles ==
    {Message(Concat(ps)) : ps \in SeqsUpTo(ScanPieces, MaxPieces) \cup SeqsUpTo(CodecPieces, MaxPieces)}
        \cup {Message(b) : b \in RejectedBodies}

Encodings == {"utf-8", "ascii"}

\* a few files, one for each way a run can go
SampleFiles ==
    { <<LetterX>>,
      Message(<<LetterX>>),
      Message(<<LetterX, EAcute>>),
      Message(<<LetterX, Eq, 67, 51, LetterX>>),
      Message(HrefEq3D \o <<DQ, Eq, 67, 51, Eq, 65, 57, DQ>>),
      Message(HrefEq3D \o <<DQ, Eq, 50, 50, Eq, 67, 51, Eq, 65, 57, DQ>>),
      Message(HrefEq3D \o <<DQ, LetterX, DQ>>) }

Start(f, enc) ==
    /\ file = f
    /\ encoding = enc
    /\ pc = "read"
    /\ email_content = <<>>
    /\ html_start = -1
    /\ html_end = -1
    /\ html_section = <<>>
    /\ body_start = 0
    /\ html_body = <<>>
    /\ decoded_html = <<>>
    /\ links = <<>>
    /\ link_spans = <<>>
    /\ raw_links = <<>>
    /\ raw_spans = <<>>
    /\ n = 0
    /\ out = <<>>
    /\ decoded_html_txt = [written |-> FALSE, content |-> <<>>]
    /\ exit_status = -1
    /\ error = "none"
    /\ upc = "entities"
    /\ fixed = <<>>
    /\ decoded = <<>>
    /\ url_out = <<>>

\* the files of markers and line ends are plain ASCII, which every stream
\* encodes: one encoding stands for all
Init ==
    \/ \E f \in StructureFiles \cup NearMissFiles : Start(f, "utf-8")
    \/ \E f \in LinkFiles, enc \in Encodings : Start(f, enc)

InitSample == \E f \in SampleFiles, enc \in Encodings : Start(f, enc)

\* decode_email.py
Next ==
    \/ ReadFile
    \/ PartNotFound
    \/ LocatePart
    \/ FindEnd
    \/ ExtractSection
    \/ ExtractBody
    \/ DecodeFails
    \/ DecodeBody
    \/ PrintHtml
    \/ PrintHtmlFallback
    \/ ExtractLinks
    \/ PrintLink
    \/ PrintLinkFails
    \/ ExtractRawLinks
    \/ PrintRawLink
    \/ PrintRawLinkFails
    \/ Finish

\* fix_url.py
NextRepair ==
    \/ ReplaceEntities
    \/ ApplyRule
    \/ PrintCorrected
    \/ Unescape
    \/ PrintDecoded

\* a run of decode_email.py on any of the generated files
Spec == Init /\ [][Next]_vars

\* the two scripts, each run once, in any interleaving
SpecBoth == InitSample /\ [][Next \/ NextRepair]_vars

\* ------------------------------------------------------------- the claims

\* sub occurs in s
Contains(s, sub) ==
    \E k \in 1..(Len(s) - Len(sub) + 1) : SubSeq(s, k, k + Len(sub) - 1) = sub

\* sub occurs in s at index k (1-based) and nowhere before
FirstAt(s, sub, k) ==
    /\ k + Len(sub) - 1 <= Len(s)
    /\ SubSeq(s, k, k + Len(sub) - 1) = sub
    /\ \A j \in 1..(k - 1) : SubSeq(s, j, j + Len(sub) - 1) # sub

\* the entries of one kind among what was printed
Printed(kind) == SelectSeq(out, LAMBDA e : e.kind = kind)

HeadingPrinted(k) == \E j \in 1..Len(out) : out[j] = Line("heading", k, <<>>)

\* the script ran to its last line
Finished == pc = "done" /\ exit_status = 0

\* the start marker was found and the body slice is taken
BodyTaken == html_start # -1 /\ pc \notin {"read", "find_start", "find_end", "slice", "body"}

\* the link pattern with the given head occurs in s from index p to the
\* closing quote at index e
PatternOccurs(s, head, p, e) ==
    /\ p >= 1
    /\ e <= Len(s)
    /\ e >= p + Len(head) + 2
    /\ SubSeq(s, p, p + Len(head) - 1) = head
    /\ IsQuote(s[p + Len(head)])
    /\ IsQuote(s[e])
    /\ \A k \in (p + Len(head) + 1)..(e - 1) : ~IsQuote(s[k])

\* C1: when the text read from the file does not contain the start marker
\* "--<boundary>\nContent-Type: text/html;", the run prints the "Could not
\* find HTML part" diagnostic and nothing else, ends with exit status 1, and
\* writes no fallback file.
C1_MissingMarkerExits ==
    (pc \notin {"read", "find_start"} /\ ~Contains(email_content, StartMarker))
        => /\ pc = "done"
           /\ exit_status = 1
           /\ error = "none"
           /\ out = <<Line("diag", 0, <<>>)>>
           /\ ~decoded_html_txt.written

C1_Witness ==
    /\ pc = "done"
    /\ ~Contains(email_content, StartMarker)
    /\ Contains(email_content, <<Dash, Dash, BoundaryTok>>)
    /\ out = <<Line("diag", 0, <<>>)>>
    /\ exit_status = 1

\* C2: once the first loop is through, the printed links are numbered 1..n,
\* each is the value of an occurrence of the href pattern in the decoded
\* HTML, the occurrences lie one after the other in the order printed, and
\* none is left out: every occurrence of the pattern is one of them or starts
\* inside one of them.  Equal values are printed as often as they occur.
C2_LinksInOrderWithDuplicates ==
    (pc = "print_raw" \/ Finished)
        => LET P == Printed("link")
           IN  /\ Len(P) = Len(link_spans)
               /\ \A k \in 1..Len(P) :
                     /\ P[k].n = k
                     /\ PatternOccurs(decoded_html, HrefEq, link_spans[k].at, link_spans[k].end)
                     /\ P[k].text = SubSeq(decoded_html, link_spans[k].at + Len(HrefEq) + 1,
                                           link_spans[k].end - 1)
               /\ \A k \in 1..(Len(P) - 1) : link_spans[k].end < link_spans[k + 1].at
               /\ \A p \in 1..Len(decoded_html) :
                     (\E e \in p..Len(decoded_html) : PatternOccurs(decoded_html, HrefEq, p, e))
                         => \E k \in 1..Len(P) : link_spans[k].at <= p /\ p <= link_spans[k].end

C2_Witness ==
    /\ Finished
    /\ Len(Printed("link")) = 2
    /\ Printed("link")[1].text = Printed("link")[2].text
    /\ Printed("link")[2].n = 2

\* the start marker was found and no boundary line follows it
NoBoundaryFollows ==
    /\ html_start # -1
    /\ ~Contains(SliceFrom(email_content, html_start), AnyMarker)

\* C7: when the start marker is found and no boundary line follows it, the
\* extracted part is the whole rest of the file from the part's start on.
C7_RestOfFileKept ==
    (NoBoundaryFollows /\ pc \notin {"read", "find_start", "find_end", "slice"})
        => html_section = SliceFrom(email_content, html_start)

\* C8: when the part is located and a boundary line follows it, the body
\* slice holds no boundary line.
C8_NoBoundaryInBody ==
    (BodyTaken /\ ~NoBoundaryFollows) => ~Contains(html_body, AnyMarker)

\* C9: the body slice is what follows the first blank line of the part: the
\* first "\n\n" if the part has one, else the first "\r\n\r\n" if it has one;
\* it is the whole part if it has neither.
C9_BodyFollowsSeparator ==
    BodyTaken
        => IF Contains(html_section, <<NL, NL>>)
           THEN \E k \in 1..Len(html_section) :
                   /\ FirstAt(html_section, <<NL, NL>>, k)
                   /\ body_start = k + 1
                   /\ html_body = SubSeq(html_section, k + 2, Len(html_section))
           ELSE IF Contains(html_section, <<CR, NL, CR, NL>>)
           THEN \E k \in 1..Len(html_section) :
                   /\ FirstAt(html_section, <<CR, NL, CR, NL>>, k)
                   /\ html_body = SubSeq(html_section, k + 4, Len(html_section))
           ELSE body_start = 0 /\ html_body = html_section

C9_Witness ==
    /\ BodyTaken
    /\ Contains(html_section, <<NL, NL>>)
    /\ html_body # <<>>
    /\ Len(html_body) < Len(html_section) - Len(StartMarker) - 2

\* C10: every decoded link is closed by the kind of quote that opens it.
C10_MatchingQuotes ==
    \A k \in 1..Len(link_spans) :
        decoded_html[link_spans[k].end] = decoded_html[link_spans[k].at + Len(HrefEq)]

\* every "=" of the body slice is the "=" of an "href=3D"
OnlyHrefEscapes(body) ==
    \A k \in 1..Len(body) :
        body[k] = Eq => k >= 5 /\ k + 2 <= Len(body) /\ SubSeq(body, k - 4, k + 2) = HrefEq3D

\* each raw link is the undecoded value of an occurrence of the href=3D
\* pattern in the body slice
RawLinksAreUndecoded ==
    /\ Len(Printed("raw")) = Len(raw_spans)
    /\ \A k \in 1..Len(raw_spans) :
          /\ PatternOccurs(html_body, HrefEq3D, raw_spans[k].at, raw_spans[k].end)
          /\ Printed("raw")[k].text = SubSeq(html_body, raw_spans[k].at + Len(HrefEq3D) + 1,
                                             raw_spans[k].end - 1)

\* the raw links, each decoded on its own, are the decoded links, one for one
RawLinksDecodeToLinks ==
    /\ Len(Printed("raw")) = Len(Printed("link"))
    /\ Len(Printed("decoded")) = Len(Printed("link"))
    /\ \A k \in 1..Len(Printed("link")) : Printed("decoded")[k].text = Printed("link")[k].text

\* C4, as stated: every raw link is the undecoded value of an href=3D match,
\* and decoded on its own it is the decoded link at the same position; the
\* two lists are equally long.
C4_RawLinksMatchDecodedLinks ==
    Finished => RawLinksAreUndecoded /\ RawLinksDecodeToLinks

\* C4, amended: every raw link is the undecoded value of an href=3D match;
\* when every "=" of the body slice belongs to an "href=3D", the raw links
\* decoded on their own are the decoded links, one for one.
C4_RawLinksMatchWhenOnlyHrefEscaped ==
    Finished => /\ RawLinksAreUndecoded
                /\ OnlyHrefEscapes(html_body) => RawLinksDecodeToLinks

C4_Witness ==
    /\ Finished
    /\ OnlyHrefEscapes(html_body)
    /\ Len(Printed("raw")) = 2
    /\ Printed("raw")[1].text # Printed("raw")[2].text

\* C5: when the part is located and decoded, the run ends with exit status 0
\* and prints both link lists; if the decoded HTML could not be printed, the
\* fallback file holds it and the notice is printed.
C5_ExitsZeroOnceDecoded ==
    (pc = "done" /\ HeadingPrinted(1))
        => /\ exit_status = 0
           /\ HeadingPrinted(2)
           /\ HeadingPrinted(3)
           /\ Printed("notice") # <<>> => (/\ decoded_html_txt.written
                                           /\ decoded_html_txt.content = decoded_html)

\* &cc=  &calc=c9a7a55029f30  &unp_tpcid=activation  &xt=145585  &utm_unptid=j03a056
RepairedPieces ==
    { <<38, 99, 99, 61>>,
      <<38, 99, 97, 108, 99, 61, 99, 57, 97, 55, 97, 53, 53, 48, 50, 57, 102, 51, 48>>,
      <<38, 117, 110, 112, 95, 116, 112, 99, 105, 100, 61, 97, 99, 116, 105, 118, 97, 116, 105, 111, 110>>,
      <<38, 120, 116, 61, 49, 52, 53, 53, 56, 53>>,
      <<38, 117, 116, 109, 95, 117, 110, 112, 116, 105, 100, 61, 106, 48, 51, 97, 48, 53, 54>> }

\* C3: the corrected URL that is printed contains each of the five repaired
\* pieces, no "&amp;", and none of the marker's characters.
C3_CorrectedUrl ==
    upc \in {"unescape", "print_decoded", "done"}
        => /\ url_out[1] = Line("corrected", 0, fixed)
           /\ \A piece \in RepairedPieces : Contains(fixed, piece)
           /\ ~Contains(fixed, AmpEntity)
           /\ \A k \in 1..Len(fixed) : fixed[k] \notin {Marker[1], Marker[2], Marker[3]}

C3_Witness ==
    /\ upc = "done"
    /\ Len(url_out) = 2
    /\ Contains(url_out[1].text, Ampersand \o <<99, 99, Eq>>)
    /\ Len(url_out[1].text) < Len(malformed)

\* a legacy entity name follows the "&" at index k of s
EntityAt(s, k) ==
    \E e \in 1..Len(LegacyNames) :
        /\ k + Len(LegacyNames[e].name) <= Len(s)
        /\ SubSeq(s, k + 1, k + Len(LegacyNames[e].name)) = LegacyNames[e].name

\* C6: the decoded URL that is printed holds no "&amp;" and no other entity
\* (no "&" with an entity name or a "#" after it, no ";"), every "%XX" of
\* the corrected URL is in it unchanged, and the unescape pass changed no
\* character at all.
C6_DecodedUrl ==
    upc = "done"
        => /\ url_out[2] = Line("decoded", 0, decoded)
           /\ ~Contains(decoded, AmpEntity)
           /\ \A k \in 1..Len(decoded) :
                 /\ decoded[k] # Semi
                 /\ decoded[k] = Amp
                       => /\ ~EntityAt(decoded, k)
                          /\ k < Len(decoded)
                          /\ decoded[k + 1] # Hash
           /\ \A k \in 1..Len(fixed) :
                 fixed[k] = 37 => /\ k + 2 <= Len(decoded)
                                  /\ SubSeq(decoded, k, k + 2) = SubSeq(fixed, k, k + 2)
           /\ decoded = fixed

C6_Witness ==
    /\ upc = "done"
    /\ Contains(decoded, <<37, 50, 70>>)
    /\ Contains(decoded, Ampersand \o <<101, 109, Eq>>)
    /\ url_out[2].text = decoded

====
